---- MODULE Spec2Model ----
(***************************************************************************)
(* Model of the batch vision client (src/client/batch_vision.py): the      *)
(* coordinate normalizer, the response parser, the verdict assembly and    *)
(* the sequential batch driver.                                            *)
(*                                                                         *)
(* Numbers.  A finite float is the rational n / Den, held as its numerator *)
(* n.  Integers produced by the code (pixel coordinates) are plain         *)
(* integers.  JSON values are records with a kind field k:                 *)
(*   "num"    finite number n/Den          "nan" "inf" "ninf"  non-finite  *)
(*   "bool"   true/false (n = 1/0)         "null"   JSON null               *)
(*   "str"    string that float() accepts, value n/Den                     *)
(*   "strnan" the string "nan"             "badstr" any other string, s    *)
(*   "list"   array, elements in items     "obj"    nested object          *)
(*   "absent" a key the object does not have (dict.get gives None)         *)
(***************************************************************************)
EXTENDS Integers, Sequences, FiniteSets, TLC

VARIABLES
  \* the batch driver (main)
  images,    \* sorted list of the .jpg files found under the input root
  retry,     \* cfg "retry"
  logOn,     \* whether --output names a JSONL file
  pc,        \* "start", "loop", "post", "got", "done", "aborted"
  idx,       \* 1-based index of the current image
  attempt,   \* attempt number of the retry loop
  cur_size,  \* image_size of the current image
  data,      \* the decoded response body, or None
  jsonDir,   \* json_out_dir: stem -> file
  outTrue,   \* image_out_true_dir: file name -> file
  outFalse,  \* image_out_false_dir: file name -> file
  jsonl,     \* lines appended to the JSONL file
  logOpen,   \* the JSONL file handle is open
  err,       \* the exception that ended the process, if any
  \* history, read by the properties only
  posts,     \* POSTs made for the current image
  succ,      \* a POST for the current image returned a body
  existed,   \* <stem>.json existed when the current image was reached
  verdicts,  \* index -> what the driver wrote for that image
  \* the normalizer applied to drawn inputs
  fin, fout, fpc

dvars == <<images, retry, logOn, pc, idx, attempt, cur_size, data, jsonDir, outTrue,
           outFalse, jsonl, logOpen, err, posts, succ, existed, verdicts>>
nvars == <<fin, fout, fpc>>
vars == <<dvars, nvars>>

----------------------------------------------------------------------------
(* Bounds of the model *)

\* a finite raw number is a multiple of 1/Den
Den == 2
\* raw numbers range up to MaxCoord
MaxCoord == 3
\* cfg "retry" ranges over 0..MaxRetry
MaxRetry == 1

----------------------------------------------------------------------------
(* JSON values *)

Num(n) == [k |-> "num", n |-> n, s |-> ""]
Int2Num(i) == Num(i * Den)
Scalar(kind) == [k |-> kind, n |-> 0, s |-> ""]
Bool(b) == [k |-> "bool", n |-> IF b THEN 1 ELSE 0, s |-> ""]
NumStr(n) == [k |-> "str", n |-> n, s |-> ""]
Text(s) == [k |-> "badstr", n |-> 0, s |-> s]
Absent == Scalar("absent")
Null == Scalar("null")
List(s) == [k |-> "list", items |-> s]

\* an image size as returned by encode_image_as_data_url: None or (w, h)
NoSize == [present |-> FALSE, w |-> 0, h |-> 0]
Size(w, h) == [present |-> TRUE, w |-> w, h |-> h]

\* the result of a call: a returned list of ints, or an exception
Ret(s) == [ok |-> TRUE, v |-> s, err |-> "none"]
Raise(e) == [ok |-> FALSE, v |-> <<>>, err |-> e]

SentinelBBox == <<0, 0, 0, 0>>
SentinelPoint == <<0, 0>>

----------------------------------------------------------------------------
(* Floats *)

Fin(n) == [t |-> "fin", n |-> n]
NoFloat == [t |-> "none", n |-> 0]
NonFin(t) == [t |-> t, n |-> 0]

\* _to_float: int, float and bool are numbers; a string goes through
\* float(value.strip()); anything else is None
_to_float(value) ==
  CASE value.k = "num" -> Fin(value.n)
    [] value.k = "bool" -> Fin(value.n * Den)
    [] value.k \in {"nan", "inf", "ninf"} -> NonFin(value.k)
    [] value.k = "str" -> Fin(value.n)
    [] value.k = "strnan" -> NonFin("nan")
    [] value.k = "badstr" -> NoFloat
    [] OTHER -> NoFloat

\* Python's round() on the rational m/d (d > 0): nearest integer, ties to even
Round(m, d) ==
  LET q == m \div d
      r == m % d
  IN  IF 2 * r < d THEN q
      ELSE IF 2 * r > d THEN q + 1
      ELSE IF q % 2 = 0 THEN q ELSE q + 1

Max(a, b) == IF a >= b THEN a ELSE b
Min(a, b) == IF a <= b THEN a ELSE b

ClampNoLow(val, low, high) == Min(high, val)
_clamp(val, low, high) == Max(low, Min(high, val))

\* int(round(f)) on a float that is not finite
RoundError(f) == IF f.t = "nan" THEN "ValueError" ELSE "OverflowError"

\* 0.0 <= v <= 1.0 (false for NaN and the infinities)
InUnit(f) == f.t = "fin" /\ 0 <= f.n /\ f.n <= Den

IsSeq(v, n) == v.k = "list" /\ Len(v.items) >= n

----------------------------------------------------------------------------
(* Coordinate normalizer *)

normalize_point(point, image_size) ==
  IF ~IsSeq(point, 2) \/ ~image_size.present THEN Ret(SentinelPoint)
  ELSE LET x_raw == _to_float(point.items[1])
           y_raw == _to_float(point.items[2])
           w == image_size.w
           h == image_size.h
       IN  IF x_raw.t = "none" \/ y_raw.t = "none" THEN Ret(SentinelPoint)
           ELSE IF w <= 0 \/ h <= 0 THEN Ret(SentinelPoint)
           ELSE IF InUnit(x_raw) /\ InUnit(y_raw)
                THEN Ret(<<_clamp(Round(x_raw.n * (w - 1), Den), 0, w - 1),
                           _clamp(Round(y_raw.n * (h - 1), Den), 0, h - 1)>>)
           \* int(round(x)) raises on NaN (ValueError) and infinity (OverflowError)
           ELSE IF x_raw.t # "fin" THEN Raise(RoundError(x_raw))
           ELSE IF y_raw.t # "fin" THEN Raise(RoundError(y_raw))
           ELSE Ret(<<_clamp(Round(x_raw.n, Den), 0, w - 1),
                      _clamp(Round(y_raw.n, Den), 0, h - 1)>>)

FractionalAny(vals) == \E i \in 1..4 : InUnit(vals[i])
\* all(0.0 <= v <= 1.0 for v in (x1, y1, x2, y2))
Fractional(vals) == \A i \in 1..4 : InUnit(vals[i])

normalize_bbox(bbox, image_size) ==
  IF ~IsSeq(bbox, 4) \/ ~image_size.present THEN Ret(SentinelBBox)
  ELSE LET vals == [i \in 1..4 |-> _to_float(bbox.items[i])]
           w == image_size.w
           h == image_size.h
       IN  IF \E i \in 1..4 : vals[i].t = "none" THEN Ret(SentinelBBox)
           ELSE IF w <= 0 \/ h <= 0 THEN Ret(SentinelBBox)
           \* all(0.0 <= v <= 1.0) is false with a non-finite value, and
           \* int(round(v)) then raises on it
           ELSE IF \E i \in 1..4 : vals[i].t # "fin"
                THEN LET first == CHOOSE i \in 1..4 :
                                    /\ vals[i].t # "fin"
                                    /\ \A j \in 1..(i - 1) : vals[j].t = "fin"
                     IN  Raise(RoundError(vals[first]))
           ELSE LET frac == Fractional(vals)
                    rx1 == Round(IF frac THEN vals[1].n * (w - 1) ELSE vals[1].n, Den)
                    ry1 == Round(IF frac THEN vals[2].n * (h - 1) ELSE vals[2].n, Den)
                    rx2 == Round(IF frac THEN vals[3].n * (w - 1) ELSE vals[3].n, Den)
                    ry2 == Round(IF frac THEN vals[4].n * (h - 1) ELSE vals[4].n, Den)
                    \* sorted((x1, x2)), sorted((y1, y2))
                    x1 == Min(rx1, rx2)
                    x2 == Max(rx1, rx2)
                    y1 == Min(ry1, ry2)
                    y2 == Max(ry1, ry2)
                IN  IF x2 = x1 \/ y2 = y1 THEN Ret(SentinelBBox)
                    ELSE LET cx1 == _clamp(x1, 0, w - 1)
                             cy1 == _clamp(y1, 0, h - 1)
                             max_x == Max(cx1 + 1, w - 1)
                             max_y == Max(cy1 + 1, h - 1)
                             cx2 == _clamp(x2, cx1 + 1, max_x)
                             cy2 == _clamp(y2, cy1 + 1, max_y)
                         IN  IF cx2 = cx1 \/ cy2 = cy1 THEN Ret(SentinelBBox)
                             ELSE Ret(<<cx1, cy1, cx2, cy2>>)

\* any(seq) for a list of ints
AnyNonZero(s) == \E i \in 1..Len(s) : s[i] # 0

\* ensure_bbox's half-width: max(20, int(round(min(w, h) * 0.05)))
MinHalf == 20
HalfDiv == 20
HalfWidth(w, h) == Max(MinHalf, Round(Min(w, h), HalfDiv))

ensure_bbox_unclamped(bbox, point, image_size) ==
  IF Len(bbox) > 0 /\ AnyNonZero(bbox) THEN bbox
  ELSE IF image_size.present /\ Len(point) > 0 /\ AnyNonZero(point)
       THEN LET half == HalfWidth(image_size.w, image_size.h)
            IN  <<point[1] - half, point[2] - half, point[1] + half, point[2] + half>>
       ELSE SentinelBBox

ensure_bbox(bbox, point, image_size) ==
  IF Len(bbox) > 0 /\ AnyNonZero(bbox) THEN bbox
  ELSE IF image_size.present /\ Len(point) > 0 /\ AnyNonZero(point)
       THEN LET w == image_size.w
                h == image_size.h
                x == point[1]
                y == point[2]
                half == HalfWidth(w, h)
                x1 == _clamp(x - half, 0, w - 1)
                y1 == _clamp(y - half, 0, h - 1)
                x2 == _clamp(x + half, x1 + 1, w)
                y2 == _clamp(y + half, y1 + 1, h)
            IN  <<x1, y1, x2, y2>>
       ELSE SentinelBBox

----------------------------------------------------------------------------
(* Response parser.  A response text is a record: val is what the text
   holds (a JSON value, or no JSON at all), fence says it starts with a
   markdown code fence, esc that its underscores are written \_, prose that
   other text surrounds the value. *)

Dict(isf, reason, point, bbox) ==
  [k |-> "dict", isf |-> isf, reason |-> reason, point |-> point, bbox |-> bbox]
EmptyDict == [k |-> "emptydict"]
\* text that is no JSON: without braces, with braces, and only whitespace
Junk == [k |-> "junk"]
JunkBraces == [k |-> "junkbraces"]
Blank == [k |-> "blank"]

TextOf(val, fence, esc, prose) ==
  [k |-> "text", val |-> val, fence |-> fence, esc |-> esc, prose |-> prose]
Plain(val) == TextOf(val, FALSE, FALSE, FALSE)
EmptyStr == [k |-> "emptystr"]

\* the result of a parse: a value, or nothing (an exception, or None)
Parsed(v) == [ok |-> TRUE, v |-> v]
NoParse == [ok |-> FALSE, v |-> Null]

clean_response_text(text) == [text EXCEPT !.fence = FALSE, !.esc = FALSE]

\* json.loads: the whole text must be one JSON value
json_loads(text) ==
  IF ~text.fence /\ ~text.esc /\ ~text.prose
     /\ text.val.k \notin {"junk", "junkbraces", "blank"}
  THEN Parsed(text.val) ELSE NoParse

\* extract_json: the greedy {...} span of the cleaned text, parsed
extract_json(text) ==
  LET cleaned == clean_response_text(text)
  IN  IF cleaned.val.k \notin {"dict", "emptydict", "junkbraces"} THEN NoParse
      ELSE json_loads(Plain(cleaned.val))

\* bool(value)
Truthy(v) ==
  CASE v.k \in {"null", "absent", "emptydict", "emptystr", "none", "falsy"} -> FALSE
    [] v.k \in {"num", "bool"} -> v.n # 0
    [] v.k = "badstr" -> v.s # ""
    [] v.k = "list" -> Len(v.items) > 0
    [] OTHER -> TRUE

IsStr(v) == v.k \in {"str", "strnan", "badstr"}

\* str(value) for a value that is no string
Stringify(v) ==
  CASE v.k = "absent" -> Text("")
    [] v.k = "null" -> Text("None")
    [] v.k = "bool" -> Text(IF v.n = 1 THEN "True" ELSE "False")
    [] v.k = "num" -> NumStr(v.n)
    [] v.k \in {"nan", "inf", "ninf"} -> Scalar("strnan")
    [] OTHER -> Text("repr")

----------------------------------------------------------------------------
(* Verdict assembly: main, lines 277-306 *)

\* the response body r.json() returned
NoData == [k |-> "none", c |-> Null]
\* {} (or [], null, 0): a body that is falsy
FalsyBody == [k |-> "falsy", c |-> Null]
\* a body that is no object: a JSON array or string
NonDictBody == [k |-> "nondict", c |-> Null]
\* an object without choices[0].message.content
NoChoicesBody == [k |-> "nochoices", c |-> Null]
Body(content) == [k |-> "ok", c |-> content]

\* data["choices"][0]["message"]["content"], "" on any exception
ContentOf(body) == IF body.k = "ok" THEN body.c ELSE EmptyStr

ParseError ==
  Dict(Bool(FALSE), Text("parse_error"), List(<<Num(0), Num(0)>>),
       List(<<Num(0), Num(0), Num(0), Num(0)>>))

\* lines 282-290; content is truthy and a str
ParseContent(content) ==
  LET cleaned == clean_response_text(content)
      first == json_loads(cleaned)
      parsed == IF first.ok THEN first ELSE extract_json(cleaned)
  IN  IF ~parsed.ok \/ ~Truthy(parsed.v) \/ parsed.v.k # "dict" THEN ParseError
      ELSE parsed.v

LocationKept(is_forbidden, parsed_point, parsed_bbox, image_size) ==
  [point |-> parsed_point,
   bbox |-> IF is_forbidden THEN ensure_bbox(parsed_bbox, parsed_point, image_size)
            ELSE parsed_bbox]
\* lines 299-303
Location(is_forbidden, parsed_point, parsed_bbox, image_size) ==
  IF is_forbidden
  THEN [point |-> parsed_point,
        bbox |-> ensure_bbox(parsed_bbox, parsed_point, image_size)]
  ELSE [point |-> SentinelPoint, bbox |-> SentinelBBox]

\* lines 292-306: the record main writes, or the exception it dies of.
\* parsed["is_forbidden"] is left as parsed; only reason, point and bbox are
\* assigned.
Assemble(parsed, image_size) ==
  LET is_forbidden == Truthy(parsed.isf)
      reason == IF IsStr(parsed.reason) THEN parsed.reason
                ELSE Stringify(parsed.reason)
      parsed_point == normalize_point(parsed.point, image_size)
      parsed_bbox == normalize_bbox(parsed.bbox, image_size)
  IN  IF ~parsed_point.ok THEN [ok |-> FALSE, err |-> parsed_point.err]
      ELSE IF ~parsed_bbox.ok THEN [ok |-> FALSE, err |-> parsed_bbox.err]
      ELSE LET loc == Location(is_forbidden, parsed_point.v, parsed_bbox.v, image_size)
           IN  [ok |-> TRUE, is_forbidden |-> is_forbidden,
                rec |-> [isf |-> parsed.isf, reason |-> reason,
                         point |-> loc.point, bbox |-> loc.bbox]]

----------------------------------------------------------------------------
(* Batch driver: main, lines 197-333 *)

\* a .jpg file: its directory under the input root, its stem, and the size
\* PIL reads from it (none when it cannot be opened)
Image(dir, stem, size) == [dir |-> dir, stem |-> stem, size |-> size]
\* the files that may lie under the input root, in sorted path order
AllImages == <<Image("a", "x", Size(100, 200)), Image("b", "x", Size(3, 3)),
               Image("b", "y", NoSize)>>
Stems == {"x", "y"}

\* sorted(glob(...)) for each set of files present
ImageLists ==
  {SelectSeq(AllImages, LAMBDA im : im \in S) :
     S \in SUBSET {AllImages[i] : i \in 1..Len(AllImages)}}

NoFile == [k |-> "nofile"]
JsonFile(rec) == [k |-> "json", rec |-> rec]
ImageFile(src, annotated) == [k |-> "img", src |-> src, annotated |-> annotated]
NoVerdict == [k |-> "none"]
Verdict(rec, dst) == [k |-> "verdict", rec |-> rec, dst |-> dst]

Coords(s) == List([i \in 1..Len(s) |-> Int2Num(s[i])])

Objects ==
  {Dict(Bool(TRUE), Text("knife"), List(<<Num(1), Num(1)>>), Absent),
   Dict(Bool(TRUE), Text("gun"), Coords(<<2, 1>>), Coords(<<1, 1, 3, 2>>)),
   Dict(Bool(FALSE), Text("ok"), Coords(<<2, 1>>), Coords(<<0, 0, 2, 2>>)),
   Dict(Absent, Absent, Coords(<<2, 1>>), Absent),
   Dict(Text("yes"), Num(7), Null, Null),
   Dict(Num(0), Null, Coords(<<1, 1>>), Text("abc")),
   Dict(Bool(TRUE), Text("knife"), Absent, Absent),
   Dict(Bool(TRUE), Text("knife"), List(<<Scalar("nan"), Num(Den)>>), Absent),
   Dict(Bool(FALSE), Text("ok"), Absent,
        List(<<Num(0), Num(0), Scalar("inf"), Num(Den)>>))}

Texts ==
  {Plain(o) : o \in Objects}
    \cup {TextOf(Dict(Bool(TRUE), Text("knife"), List(<<Num(1), Num(1)>>), Absent),
                 TRUE, FALSE, FALSE),
          TextOf(Dict(Bool(FALSE), Text("ok"), Coords(<<2, 1>>), Coords(<<0, 0, 2, 2>>)),
                 FALSE, FALSE, TRUE),
          TextOf(Dict(Absent, Absent, Coords(<<2, 1>>), Absent), TRUE, TRUE, TRUE),
          TextOf(JunkBraces, FALSE, FALSE, TRUE),
          Plain(Junk), Plain(Blank), Plain(EmptyDict), Plain(Null),
          Plain(Coords(<<1, 2>>))}

\* what r.json() may return for a 2xx response
Bodies ==
  {FalsyBody, NonDictBody, NoChoicesBody, Body(Null), Body(EmptyStr),
   Body(Num(0)), Body(Coords(<<1, 2>>))}
    \cup {Body(t) : t \in Texts}

Basename(im) == im.stem

\* the files an earlier run leaves when every response failed to parse
EarlierRun(list) ==
  LET last(s) == CHOOSE i \in 1..Len(list) :
                   /\ list[i].stem = s
                   /\ \A j \in 1..Len(list) : list[j].stem = s => j <= i
      has(s) == \E i \in 1..Len(list) : list[i].stem = s
      rec == Assemble(ParseError, NoSize).rec
  IN  [json |-> [s \in Stems |-> IF has(s) THEN JsonFile(rec) ELSE NoFile],
       clear |-> [s \in Stems |->
                    IF has(s) THEN ImageFile(list[last(s)], FALSE) ELSE NoFile]]

NormIdle == fin = 0 /\ fout = 0 /\ fpc = "idle"

Init ==
  /\ images \in ImageLists
  /\ retry \in 0..MaxRetry
  /\ logOn \in BOOLEAN
  /\ pc = "start" /\ idx = 1 /\ attempt = 0
  /\ cur_size = NoSize /\ data = NoData
  /\ \E earlier \in BOOLEAN :
       /\ jsonDir = IF earlier THEN EarlierRun(images).json ELSE [s \in Stems |-> NoFile]
       /\ outFalse = IF earlier THEN EarlierRun(images).clear ELSE [s \in Stems |-> NoFile]
  /\ outTrue = [s \in Stems |-> NoFile]
  /\ jsonl = <<>> /\ logOpen = FALSE /\ err = "none"
  /\ posts = 0 /\ succ = FALSE /\ existed = FALSE
  /\ verdicts = [i \in 1..Len(images) |-> NoVerdict]
  /\ NormIdle

\* lines 218-231: leave when no image was found, else open the JSONL file
Start ==
  /\ pc = "start"
  /\ IF images = <<>>
     THEN pc' = "done" /\ UNCHANGED logOpen
     ELSE pc' = "loop" /\ logOpen' = logOn
  /\ UNCHANGED <<images, retry, logOn, idx, attempt, cur_size, data, jsonDir, outTrue,
                 outFalse, jsonl, err, posts, succ, existed, verdicts, nvars>>

\* lines 233-261: the next image is encoded and the payload built
BeginImage ==
  /\ pc = "loop" /\ idx <= Len(images)
  /\ cur_size' = images[idx].size
  /\ data' = NoData /\ attempt' = 0 /\ pc' = "post"
  /\ posts' = 0 /\ succ' = FALSE
  /\ existed' = (jsonDir[images[idx].stem] # NoFile)
  /\ UNCHANGED <<images, retry, logOn, idx, jsonDir, outTrue, outFalse, jsonl,
                 logOpen, err, verdicts, nvars>>

\* lines 262-267: a POST that returns a 2xx response with a JSON body
PostOk ==
  /\ pc = "post" /\ attempt <= retry
  /\ \E b \in Bodies : data' = b
  /\ posts' = posts + 1 /\ succ' = TRUE /\ pc' = "got"
  /\ UNCHANGED <<images, retry, logOn, idx, attempt, cur_size, jsonDir, outTrue,
                 outFalse, jsonl, logOpen, err, existed, verdicts, nvars>>

PostFailOnceMore ==
  /\ pc = "post" /\ attempt <= retry + 1
  /\ posts' = posts + 1
  /\ attempt' = attempt + 1
  /\ pc' = IF attempt + 1 > retry + 1 THEN "got" ELSE "post"
  /\ UNCHANGED <<images, retry, logOn, idx, cur_size, data, jsonDir, outTrue,
                 outFalse, jsonl, logOpen, err, succ, existed, verdicts, nvars>>

\* lines 262-271: a POST that fails (connection error, non-2xx status,
\* timeout, a body that is no JSON); the loop ends after attempt = retry
PostFail ==
  /\ pc = "post" /\ attempt <= retry
  /\ posts' = posts + 1
  /\ attempt' = attempt + 1
  /\ pc' = IF attempt + 1 > retry THEN "got" ELSE "post"
  /\ UNCHANGED <<images, retry, logOn, idx, cur_size, data, jsonDir, outTrue,
                 outFalse, jsonl, logOpen, err, succ, existed, verdicts, nvars>>

\* lines 273-275: no data; the image is copied to the clear directory
GiveUp ==
  /\ pc = "got" /\ ~Truthy(data)
  /\ outFalse' = [outFalse EXCEPT ![Basename(images[idx])] = ImageFile(images[idx], FALSE)]
  /\ idx' = idx + 1 /\ pc' = "loop"
  /\ UNCHANGED <<images, retry, logOn, attempt, cur_size, data, jsonDir, outTrue,
                 jsonl, logOpen, err, posts, succ, existed, verdicts, nvars>>

\* lines 277-329: the verdict is assembled, written and the image routed; an
\* exception outside the try blocks ends the process
Process ==
  /\ pc = "got" /\ Truthy(data)
  /\ LET content == ContentOf(data)
         im == images[idx]
     IN  IF Truthy(content) /\ content.k # "text"
         THEN \* clean_response_text(content): content.strip() does not exist
              /\ pc' = "aborted" /\ err' = "AttributeError"
              /\ UNCHANGED <<idx, jsonDir, outTrue, outFalse, jsonl, verdicts>>
         ELSE LET parsed == IF Truthy(content) THEN ParseContent(content)
                            ELSE ParseError
                  a == Assemble(parsed, cur_size)
              IN  IF ~a.ok
                  THEN /\ pc' = "aborted" /\ err' = a.err
                       /\ UNCHANGED <<idx, jsonDir, outTrue, outFalse, jsonl, verdicts>>
                  ELSE /\ jsonDir' = [jsonDir EXCEPT ![im.stem] = JsonFile(a.rec)]
                       /\ IF a.is_forbidden
                          THEN \* annotate_detection; a plain copy when the
                               \* box is degenerate or drawing fails
                               /\ \E drawn \in BOOLEAN :
                                    /\ drawn => /\ a.rec.bbox[1] # a.rec.bbox[3]
                                                /\ a.rec.bbox[2] # a.rec.bbox[4]
                                    /\ outTrue' = [outTrue EXCEPT ![Basename(im)] =
                                                     ImageFile(im, drawn)]
                               /\ UNCHANGED outFalse
                          ELSE /\ outFalse' = [outFalse EXCEPT ![Basename(im)] =
                                                 ImageFile(im, FALSE)]
                               /\ UNCHANGED outTrue
                       /\ jsonl' = IF logOpen
                                   THEN Append(jsonl, [image |-> im, result |-> a.rec])
                                   ELSE jsonl
                       /\ verdicts' = [verdicts EXCEPT ![idx] =
                                         Verdict(a.rec, IF a.is_forbidden THEN "flagged"
                                                        ELSE "clear")]
                       /\ idx' = idx + 1 /\ pc' = "loop"
                       /\ UNCHANGED err
  /\ UNCHANGED <<images, retry, logOn, attempt, cur_size, data, logOpen, posts, succ,
                 existed, nvars>>

\* lines 331-333: the JSONL file is closed
Finish ==
  /\ pc = "loop" /\ idx > Len(images)
  /\ logOpen' = FALSE /\ pc' = "done"
  /\ UNCHANGED <<images, retry, logOn, idx, attempt, cur_size, data, jsonDir, outTrue,
                 outFalse, jsonl, err, posts, succ, existed, verdicts, nvars>>

Next == Start \/ BeginImage \/ PostOk \/ PostFail \/ GiveUp \/ Process \/ Finish

Spec == Init /\ [][Next]_vars

DriverIdle ==
  /\ images = <<>> /\ retry = 0 /\ logOn = FALSE /\ pc = "idle" /\ idx = 0
  /\ attempt = 0 /\ cur_size = NoSize /\ data = NoData /\ jsonDir = <<>>
  /\ outTrue = <<>> /\ outFalse = <<>> /\ jsonl = <<>> /\ logOpen = FALSE
  /\ err = "none" /\ posts = 0 /\ succ = FALSE /\ existed = FALSE
  /\ verdicts = <<>>

----------------------------------------------------------------------------
(* The normalizer applied to drawn inputs: normalize_bbox once and then on
   its own output, and the normalize_point / normalize_bbox / ensure_bbox
   pipeline of main (lines 297-300). *)

\* -(Den+1)/Den rounds below zero, -1/Den rounds to zero
RawNums == {Num(n) : n \in {-(Den + 1), -1} \cup 0..(MaxCoord * Den)}

NumericBoxes == {List(<<a, b, c, d>>) : a \in RawNums, b \in RawNums,
                                        c \in RawNums, d \in RawNums}

OddScalars == {Scalar("nan"), Scalar("inf"), Null, Text("abc"),
               Scalar("strnan"), Bool(TRUE), NumStr(3 * Den), Num(0)}

MalformedBoxes == {List(<<a, b, c, d>>) : a \in OddScalars, b \in OddScalars,
                                          c \in OddScalars, d \in OddScalars}

WrongShapes == {Null, Num(Den), Text("abc"), Scalar("obj"), List(<<>>),
                List(<<Num(0), Num(0), Num(2 * Den)>>),
                List(<<Num(0), Num(0), Num(2 * Den), Num(Den), Text("abc")>>)}

RawBoxes == NumericBoxes \cup MalformedBoxes \cup WrongShapes

PositiveSizes == {Size(1, 1), Size(1, 3), Size(2, 2), Size(3, 2), Size(3, 3)}
\* no size (the image could not be opened), and a size with a zero side
BBoxSizes == {NoSize, Size(0, 3)} \cup PositiveSizes

\* sizes around ensure_bbox's half-width: smaller than it, just larger, and
\* large enough for min(w, h) * 0.05 to exceed 20
EnsureSizes == {NoSize, Size(1, 1), Size(30, 50), Size(41, 41), Size(640, 480),
                Size(500, 1000)}

PixelCoords(d) == {c \in {0, 1, 19, 20, 21, 24, 25, 26, d - 26, d - 25, d - 24,
                          d - 21, d - 20, d - 1, d, d + 7} : c >= 0}

EnsurePoints(size) ==
  {List(<<Int2Num(x), Int2Num(y)>>) : x \in PixelCoords(size.w), y \in PixelCoords(size.h)}
    \cup {List(<<Num(1), Num(1)>>), Null}

EnsureBoxes(size) ==
  {Null, List(<<Num(0), Num(0), Num(0), Num(0)>>),
   List(<<Int2Num(2), Int2Num(3), Int2Num(2), Int2Num(9)>>),
   List(<<Int2Num(0), Int2Num(0), Int2Num(1), Int2Num(1)>>),
   List(<<Int2Num(size.w), Int2Num(size.h), Int2Num(3), Int2Num(2)>>)}

NotRun == [ok |-> FALSE, v |-> <<-1>>, err |-> "none"]
NoOut == [b1 |-> NotRun, b2 |-> NotRun, p |-> NotRun, e |-> <<-1>>]

NormInit ==
  /\ DriverIdle
  /\ fpc = "in"
  /\ fout = NoOut
  /\ \/ \E b \in RawBoxes, s \in PositiveSizes :
          fin = [mode |-> "bbox", bbox |-> b, point |-> Null, size |-> s]
     \/ \E b \in MalformedBoxes \cup WrongShapes, s \in BBoxSizes :
          fin = [mode |-> "bbox", bbox |-> b, point |-> Null, size |-> s]
     \/ \E s \in EnsureSizes : \E b \in EnsureBoxes(s), p \in EnsurePoints(s) :
          fin = [mode |-> "ensure", bbox |-> b, point |-> p, size |-> s]

\* B = normalize_bbox(raw, dims)
NormalizeOnce ==
  /\ fpc = "in" /\ fin.mode = "bbox"
  /\ fout' = [fout EXCEPT !.b1 = normalize_bbox(fin.bbox, fin.size)]
  /\ fpc' = "once"
  /\ UNCHANGED <<fin, dvars>>

\* normalize_bbox(B, dims): the returned list of ints fed back in
NormalizeAgain ==
  /\ fpc = "once" /\ fout.b1.ok
  /\ fout' = [fout EXCEPT !.b2 =
                normalize_bbox(List([i \in 1..4 |-> Int2Num(fout.b1.v[i])]), fin.size)]
  /\ fpc' = "twice"
  /\ UNCHANGED <<fin, dvars>>

\* main, lines 297-300 with is_forbidden true
EnsureStep ==
  /\ fpc = "in" /\ fin.mode = "ensure"
  /\ LET p == normalize_point(fin.point, fin.size)
         b == normalize_bbox(fin.bbox, fin.size)
     IN  /\ p.ok /\ b.ok
         /\ fout' = [fout EXCEPT !.p = p, !.b1 = b,
                                 !.e = ensure_bbox(b.v, p.v, fin.size)]
  /\ fpc' = "ensured"
  /\ UNCHANGED <<fin, dvars>>

NormNext == NormalizeOnce \/ NormalizeAgain \/ EnsureStep

SpecNorm == NormInit /\ [][NormNext]_vars

----------------------------------------------------------------------------
(* Claims about the normalizer *)

PositiveSize(size) == size.present /\ size.w > 0 /\ size.h > 0

\* the spec's NormalizedBBox: the sentinel, or a box of positive area within
\* the image
IsNormalizedBBox(b, size) ==
  \/ b = SentinelBBox
  \/ /\ Len(b) = 4 /\ size.present
     /\ 0 <= b[1] /\ b[1] < b[3] /\ b[3] <= size.w
     /\ 0 <= b[2] /\ b[2] < b[4] /\ b[4] <= size.h

\* C1: normalize_bbox is idempotent: with B = normalize_bbox(raw, dims) for a
\* size of positive width and height, normalize_bbox(B, dims) = B.
C1_Idempotent ==
  fpc = "twice" /\ PositiveSize(fin.size) => fout.b2 = fout.b1

\* C1 amended: normalize_bbox is idempotent on every output B other than
\* [0,0,1,1]; that box, all of whose entries lie in [0,1], is read again as
\* fractional and becomes [0,0,width-1,height-1], or the sentinel when the
\* width or the height is 1 (so it is a fixed point only for a 2 x 2 image).
C1_IdempotentButUnitBox ==
  fpc = "twice" /\ PositiveSize(fin.size) =>
    IF fout.b1.v # <<0, 0, 1, 1>> THEN fout.b2 = fout.b1
    ELSE fout.b2 = Ret(IF fin.size.w = 1 \/ fin.size.h = 1 THEN SentinelBBox
                       ELSE <<0, 0, fin.size.w - 1, fin.size.h - 1>>)

\* C1's case: an absolute raw box normalized to [0,0,1,1] on a 3 x 3 image,
\* and normalized again
C1_Witness ==
  /\ fpc = "twice" /\ fin.size = Size(3, 3)
  /\ fout.b1.v = <<0, 0, 1, 1>> /\ fout.b2.v = <<0, 0, 2, 2>>

\* C2: whatever the raw bbox and the image size, a box that normalize_bbox
\* returns (on the raw input and on its own output) is the sentinel
\* [0,0,0,0] or has 0 <= x1 < x2 <= width and 0 <= y1 < y2 <= height.
C2_BoxValid ==
  /\ fpc \in {"once", "twice"} /\ fout.b1.ok => IsNormalizedBBox(fout.b1.v, fin.size)
  /\ fpc = "twice" /\ fout.b2.ok => IsNormalizedBBox(fout.b2.v, fin.size)

\* C2's case: reversed, out-of-range corners that survive as a box touching
\* the right edge (x2 = width)
C2_Witness ==
  /\ fpc = "once" /\ fin.mode = "bbox" /\ fin.bbox \in NumericBoxes
  /\ fin.bbox.items[1].n > fin.bbox.items[3].n
  /\ fin.bbox.items[1].n > fin.size.w * Den
  /\ fout.b1.ok /\ fout.b1.v # SentinelBBox
  /\ fout.b1.v[3] = fin.size.w

\* the case C3 is about: main reaches ensure_bbox with the sentinel bbox and
\* a normalized point other than [0,0], for an image of positive size
EnsureCase ==
  /\ fpc = "ensured" /\ PositiveSize(fin.size)
  /\ fout.b1.v = SentinelBBox /\ fout.p.v # SentinelPoint

----------------------------------------------------------------------------
(* Claims about the driver *)

\* the spec's NormalizedPoint: [0,0], or a pixel of the image
IsNormalizedPoint(p, size) ==
  \/ p = SentinelPoint
  \/ /\ Len(p) = 2 /\ size.present
     /\ 0 <= p[1] /\ p[1] < size.w
     /\ 0 <= p[2] /\ p[2] < size.h

\* the record written for the parse_error fallback
FallbackRecord == Assemble(ParseError, NoSize).rec

\* the image the driver has just finished with (or died on): after Process
\* or GiveUp idx has moved on, after an exception it has not
LastIndex == IF pc = "aborted" THEN idx ELSE idx - 1
Handled == pc \in {"loop", "done", "aborted"} /\ succ

\* C4: assembling a verdict never raises: whenever a response with a text
\* content has been received, whatever the text and the image size, the
\* driver does not die of an exception and has a record for the image.
C4_AssemblyNeverRaises ==
  Handled /\ data.k = "ok" /\ data.c.k = "text" =>
    pc # "aborted" /\ err = "none" /\ verdicts[LastIndex].k = "verdict"

\* C5: every record the driver writes is a well-formed Verdict (is_forbidden
\* a boolean, reason a string, point a NormalizedPoint, bbox a
\* NormalizedBBox), in the JSON file and in the JSONL line, and the image
\* goes to the flagged directory exactly when the stored is_forbidden is
\* true.
C5_WellFormedVerdict ==
  /\ \A i \in 1..Len(images) :
       verdicts[i].k = "verdict" =>
         LET rec == verdicts[i].rec
         IN  /\ rec.isf.k = "bool"
             /\ IsStr(rec.reason)
             /\ IsNormalizedPoint(rec.point, images[i].size)
             /\ IsNormalizedBBox(rec.bbox, images[i].size)
             /\ (verdicts[i].dst = "flagged") <=> (rec.isf = Bool(TRUE))
  /\ \A s \in Stems : jsonDir[s].k = "json" => jsonDir[s].rec.isf.k = "bool"
  /\ \A j \in 1..Len(jsonl) : jsonl[j].result.isf.k = "bool"

\* C6: a verdict whose is_forbidden is false, falsy or absent (the
\* parse_error fallback included) has point = [0,0] and bbox = [0,0,0,0],
\* in the driver's record of it, in the JSON file and in the JSONL line.
C6_ClearedHasNoLocation ==
  /\ \A i \in 1..Len(images) :
       verdicts[i].k = "verdict" /\ ~Truthy(verdicts[i].rec.isf) =>
         /\ verdicts[i].rec.point = SentinelPoint
         /\ verdicts[i].rec.bbox = SentinelBBox
         /\ verdicts[i].dst = "clear"
  /\ \A s \in Stems :
       jsonDir[s].k = "json" /\ ~Truthy(jsonDir[s].rec.isf) =>
         jsonDir[s].rec.point = SentinelPoint /\ jsonDir[s].rec.bbox = SentinelBBox
  /\ \A j \in 1..Len(jsonl) :
       ~Truthy(jsonl[j].result.isf) =>
         jsonl[j].result.point = SentinelPoint /\ jsonl[j].result.bbox = SentinelBBox

\* C6's case: a response with is_forbidden false that carries a point and a
\* bbox which normalize to a pixel and a box of the image
C6_Witness ==
  /\ Handled /\ pc = "loop" /\ data.k = "ok" /\ data.c.k = "text"
  /\ data.c.val.k = "dict" /\ data.c.val.isf = Bool(FALSE)
  /\ normalize_point(data.c.val.point, cur_size).ok
  /\ normalize_point(data.c.val.point, cur_size).v # SentinelPoint
  /\ normalize_bbox(data.c.val.bbox, cur_size).ok
  /\ normalize_bbox(data.c.val.bbox, cur_size).v # SentinelBBox
  /\ verdicts[LastIndex].k = "verdict"
  /\ verdicts[LastIndex].rec.point = SentinelPoint
  /\ verdicts[LastIndex].rec.bbox = SentinelBBox

\* C7: an image whose <stem>.json exists when the driver reaches it is
\* skipped: no request is made for it.
C7_ExistingRecordSkipped == existed => posts = 0

\* the body is not of the shape {choices: [{message: {content: string}}]}
Deviates(body) ==
  \/ body.k \in {"falsy", "nondict", "nochoices"}
  \/ body.k = "ok" /\ body.c.k \notin {"text", "emptystr"}

\* C8: a received body that deviates from the expected shape is handled as
\* empty content: no exception, the parse_error fallback written for the
\* image, the image in the clear directory.
C8_DeviationIsEmptyContent ==
  Handled /\ Deviates(data) =>
    /\ pc # "aborted"
    /\ verdicts[LastIndex] = Verdict(FallbackRecord, "clear")
    /\ jsonDir[images[LastIndex].stem] = JsonFile(FallbackRecord)
    /\ outFalse[Basename(images[LastIndex])] = ImageFile(images[LastIndex], FALSE)

\* all attempts for the current image have failed
Exhausted == pc = "got" /\ ~succ

\* the images before the current one have all been reached
Reached(i) == i < idx \/ (i = idx /\ pc # "loop")

\* C9: at most retry+1 POSTs are made for an image and none after the first
\* success; when all retry+1 have failed the driver's next step copies the
\* image unannotated to the clear directory, writes no JSON and no JSONL
\* line, and is at the next image; that step, the next attempt of the retry
\* loop and the next round of the loop over the images can always be taken;
\* at the driver's normal end every image was reached and the JSONL file is
\* closed.
C9_TransportFailureBounded ==
  /\ [](posts <= retry + 1)
  /\ [][succ => posts' # posts + 1]_vars
  /\ [](Exhausted => posts = retry + 1 /\ ENABLED GiveUp)
  /\ [][Exhausted =>
          /\ pc' = "loop" /\ idx' = idx + 1
          /\ outFalse' = [outFalse EXCEPT ![Basename(images[idx])] =
                            ImageFile(images[idx], FALSE)]
          /\ UNCHANGED <<jsonDir, outTrue, jsonl, verdicts, err>>]_vars
  /\ [](pc = "post" => ENABLED PostFail)
  /\ [](pc = "loop" => ENABLED BeginImage \/ ENABLED Finish)
  /\ [](pc = "done" => ~logOpen /\ \A i \in 1..Len(images) : Reached(i))

\* C9's case: with retry >= 1 every attempt for an image failed, and the
\* driver has moved on leaving the image in the clear directory and no JSON
C9_Witness ==
  /\ pc = "loop" /\ idx > 1 /\ ~succ /\ retry >= 1 /\ posts = retry + 1
  /\ verdicts[idx - 1] = NoVerdict
  /\ jsonDir[images[idx - 1].stem] = NoFile
  /\ outFalse[Basename(images[idx - 1])] = ImageFile(images[idx - 1], FALSE)
  /\ idx <= Len(images)

\* C10: no image's processing overwrites another's output: at the end each
\* image the driver wrote a verdict for has that verdict in <stem>.json and
\* its own copy in the directory it was routed to.
C10_OwnRecord ==
  pc = "done" =>
    \A i \in 1..Len(images) :
      verdicts[i].k = "verdict" =>
        /\ jsonDir[images[i].stem] = JsonFile(verdicts[i].rec)
        /\ IF verdicts[i].dst = "flagged"
           THEN outTrue[Basename(images[i])].k = "img"
                /\ outTrue[Basename(images[i])].src = images[i]
           ELSE outFalse[Basename(images[i])] = ImageFile(images[i], FALSE)

====
